---- MODULE Spec2Model ----
(***************************************************************************)
(* Content-addressed snapshots of directory trees:                         *)
(*   src/src/object_store/directory.rs  DirectoryObjectStore (has, read,   *)
(*                                      insert on a sharded directory)     *)
(*   src/src/directory.rs               Directory (new, diff, write),      *)
(*                                      DirectoryEntry::diff               *)
(* Three specifications share the variables:                               *)
(*   StoreSpec  the object store under insert / read / has                 *)
(*   Spec       snapshot of a working directory and write-back             *)
(*   DiffSpec   diff of two Directory values                               *)
(***************************************************************************)
EXTENDS Integers, Sequences, FiniteSets, TLC

VARIABLES
    store,      \* contents of the store's root directory: shard -> (file name -> bytes)
    ledger,     \* history: the <<id, bytes>> pairs insert has returned
    work,       \* the working directory Directory::new walks
    target,     \* the directory at the path Directory::write is given
    tree,       \* the Directory value at hand
    origin,     \* history: how tree was obtained
    self,       \* receiver of Directory::diff
    other,      \* argument of Directory::diff
    ret         \* the last operation and what it returned

vars == <<store, ledger, work, target, tree, origin, self, other, ret>>

----------------------------------------------------------------------------
(* Bounds *)

\* longest file content
MaxLen == 2
\* most objects inserted directly in StoreSpec
MaxInserts == 3
\* most entries, counted over all levels, of a Directory given to diff
MaxEntries == 4
\* most entries, counted over all levels, of the working directory
MaxWorkEntries == 3
\* deepest nesting of a Directory or a directory on disk
MaxDepth == 3

----------------------------------------------------------------------------
(* Values *)

Byte == {0, 1}

ByteSeqs == UNION {[1..n -> Byte] : n \in 0..MaxLen}

\* file names, in the order of String's Ord (BTreeMap iteration order)
NameOrder == <<"a", "b">>

Names == {NameOrder[i] : i \in 1..Len(NameOrder)}

EmptyMap == <<>>

Ok(v) == [tag |-> "Ok", val |-> v]

Some(v) == [tag |-> "Some", val |-> v]

None == [tag |-> "None"]

----------------------------------------------------------------------------
(* ObjectId: crate::object_id is outside src/; spec section 4.1 *)

\* identifier_of(bytes): deterministic, total, collision-free on the bytes modelled
RECURSIVE IdOf(_)
IdOf(bytes) ==
    IF bytes = <<>> THEN 0
    ELSE Cardinality(Byte) * IdOf(SubSeq(bytes, 1, Len(bytes) - 1))
         + bytes[Len(bytes)] + 1

\* the canonical string encoding: three digits, most significant first
Format(id) == <<(id \div 16) % 4, (id \div 4) % 4, id % 4>>

\* identifiers asked about: those of the contents modelled and of longer ones
ObjectIds == {IdOf(b) : b \in UNION {[1..n -> Byte] : n \in 0..(MaxLen + 1)}}

----------------------------------------------------------------------------
(* DirectoryObjectStore *)

\* &s[0..2]
Subdir(s) == SubSeq(s, 1, 2)

\* &s[2..]
Filename(s) == SubSeq(s, 3, Len(s))

\* File::options().create(true).write(true).open(p) then write(v): the bytes
\* go to offset 0 and whatever the file held beyond them stays
WriteFile(old, v) == v \o SubSeq(old, Len(v) + 1, Len(old))

\* has testing the shard directory alone
HasFaulty(root, id) ==
    LET s == Format(id)
        subdir == Subdir(s)
    IN  Ok(subdir \in DOMAIN root)

\* try_exists(root/subdir/filename): a missing shard and a missing file are
\* both Ok(false)
Has(root, id) ==
    LET s == Format(id)
        subdir == Subdir(s)
        filename == Filename(s)
    IN  Ok(subdir \in DOMAIN root /\ filename \in DOMAIN root[subdir])

\* open for reading: NotFound is Ok(None), a file found is read to its end
Read(root, id) ==
    LET s == Format(id)
        subdir == Subdir(s)
        filename == Filename(s)
    IN  IF subdir \in DOMAIN root /\ filename \in DOMAIN root[subdir]
        THEN Ok(Some(root[subdir][filename]))
        ELSE Ok(None)

\* insert naming the file by an empty remainder of the identifier
InsertFaulty(root, object) ==
    LET id == IdOf(object)
        s == Format(id)
        subdir == Subdir(s)
        filename == SubSeq(s, 3, 2)
        made == IF subdir \in DOMAIN root THEN root ELSE root @@ (subdir :> EmptyMap)
        old == IF filename \in DOMAIN made[subdir] THEN made[subdir][filename] ELSE <<>>
    IN  [root |-> [made EXCEPT ![subdir] = (filename :> WriteFile(old, object)) @@ @],
         id |-> id]

\* the shard directory is made when absent; the object file is opened with
\* create and write, without truncate
Insert(root, object) ==
    LET id == IdOf(object)
        s == Format(id)
        subdir == Subdir(s)
        filename == Filename(s)
        made == IF subdir \in DOMAIN root THEN root ELSE root @@ (subdir :> EmptyMap)
        old == IF filename \in DOMAIN made[subdir] THEN made[subdir][filename] ELSE <<>>
    IN  [root |-> [made EXCEPT ![subdir] = (filename :> WriteFile(old, object)) @@ @],
         id |-> id]

----------------------------------------------------------------------------
(* StoreSpec: a new DirectoryObjectStore under insert, read and has *)

Idle == [op |-> "none"]

\* tree is Directory::default()
Unbuilt == [by |-> "default", ignores |-> {}]

StoreInit ==
    /\ store = EmptyMap
    /\ ledger = {}
    /\ work = EmptyMap
    /\ target = EmptyMap
    /\ tree = EmptyMap
    /\ origin = Unbuilt
    /\ self = EmptyMap
    /\ other = EmptyMap
    /\ ret = Idle

StoreInsert(object) ==
    /\ Cardinality(ledger) < MaxInserts
    /\ LET r == Insert(store, object)
       IN  /\ store' = r.root
           /\ ledger' = ledger \cup {<<r.id, object>>}
           /\ ret' = [op |-> "insert", id |-> r.id, val |-> Ok(r.id)]
    /\ UNCHANGED <<work, target, tree, origin, self, other>>

StoreRead(id) ==
    /\ ret' = [op |-> "read", id |-> id, val |-> Read(store, id)]
    /\ UNCHANGED <<store, ledger, work, target, tree, origin, self, other>>

StoreHas(id) ==
    /\ ret' = [op |-> "has", id |-> id, val |-> Has(store, id)]
    /\ UNCHANGED <<store, ledger, work, target, tree, origin, self, other>>

StoreNext ==
    \/ \E object \in ByteSeqs : StoreInsert(object)
    \/ \E id \in ObjectIds : StoreRead(id)
    \/ \E id \in ObjectIds : StoreHas(id)

StoreSpec == StoreInit /\ [][StoreNext]_vars

Inserted == {p[1] : p \in ledger}

\* C2: every insert(b) that returned id leaves read(id) = Some(b), in the state
\* right after it and after every later insert, read and has
C2_StoreRoundTrip ==
    /\ \A p \in ledger : Read(store, p[1]) = Ok(Some(p[2]))
    /\ ret.op = "read" => \A p \in ledger : p[1] = ret.id => ret.val = Ok(Some(p[2]))

\* three objects stored, the empty one among them, two of them in one shard,
\* and a read of the empty one answered
C2_Witness ==
    /\ Cardinality(ledger) = 3
    /\ <<IdOf(<<>>), <<>>>> \in ledger
    /\ \E p, q \in ledger : p # q /\ Subdir(Format(p[1])) = Subdir(Format(q[1]))
    /\ ret.op = "read" /\ ret.id = IdOf(<<>>) /\ ret.val = Ok(Some(<<>>))

\* C3: has(id) answers false, not an error, until the first insert of content
\* whose identifier is id, and true from then on
C3_HasIffInserted ==
    /\ \A id \in ObjectIds : Has(store, id) = Ok(id \in Inserted)
    /\ ret.op = "has" => ret.val = Ok(ret.id \in Inserted)

\* has answered false for an identifier whose shard another object created,
\* while an inserted identifier is present
C3_Witness ==
    /\ ret.op = "has"
    /\ ret.val = Ok(FALSE)
    /\ Subdir(Format(ret.id)) \in DOMAIN store
    /\ \E id \in Inserted : Has(store, id) = Ok(TRUE)

----------------------------------------------------------------------------
(* Directory, DirectoryEntry, Diff, DiffEntry *)

\* A Directory is modelled by its root map: name -> DirectoryEntry
File(id) == [kind |-> "File", id |-> id]

Directory(d) == [kind |-> "Directory", dir |-> d]

DiffFile(id) == [kind |-> "File", id |-> id]

DiffDirectory(diff) == [kind |-> "Directory", diff |-> diff]

MkDiff(deleted, added, modified) ==
    [deleted |-> deleted, added |-> added, modified |-> modified]

RECURSIVE DirectoryDiff(_, _), EntryDiff(_, _)

\* DirectoryEntry::diff with the deep-equality test of two directories left out
EntryDiffNoEq(entry, other_entry) ==
    CASE entry.kind = "File" /\ other_entry.kind = "File" ->
            IF entry.id # other_entry.id THEN Some(DiffFile(other_entry.id)) ELSE None
      [] entry.kind = "Directory" /\ other_entry.kind = "File" ->
            Some(DiffFile(other_entry.id))
      [] entry.kind = "File" /\ other_entry.kind = "Directory" ->
            Some(DiffDirectory(MkDiff({}, other_entry.dir, EmptyMap)))
      [] entry.kind = "Directory" /\ other_entry.kind = "Directory" ->
            Some(DiffDirectory(DirectoryDiff(entry.dir, other_entry.dir)))

\* DirectoryEntry::diff with the new subtree left out when a file turns directory
EntryDiffDropsSubtree(entry, other_entry) ==
    CASE entry.kind = "File" /\ other_entry.kind = "File" ->
            IF entry.id # other_entry.id THEN Some(DiffFile(other_entry.id)) ELSE None
      [] entry.kind = "Directory" /\ other_entry.kind = "File" ->
            Some(DiffFile(other_entry.id))
      [] entry.kind = "File" /\ other_entry.kind = "Directory" ->
            Some(DiffDirectory(MkDiff({}, EmptyMap, EmptyMap)))
      [] entry.kind = "Directory" /\ other_entry.kind = "Directory" ->
            IF entry.dir = other_entry.dir THEN None
            ELSE Some(DiffDirectory(DirectoryDiff(entry.dir, other_entry.dir)))

\* DirectoryEntry::diff reporting the old identifier of a changed file
EntryDiffOldId(entry, other_entry) ==
    CASE entry.kind = "File" /\ other_entry.kind = "File" ->
            IF entry.id # other_entry.id THEN Some(DiffFile(entry.id)) ELSE None
      [] entry.kind = "Directory" /\ other_entry.kind = "File" ->
            Some(DiffFile(other_entry.id))
      [] entry.kind = "File" /\ other_entry.kind = "Directory" ->
            Some(DiffDirectory(MkDiff({}, other_entry.dir, EmptyMap)))
      [] entry.kind = "Directory" /\ other_entry.kind = "Directory" ->
            IF entry.dir = other_entry.dir THEN None
            ELSE Some(DiffDirectory(DirectoryDiff(entry.dir, other_entry.dir)))

\* DirectoryEntry::diff: None when nothing changed, else the new state
EntryDiff(entry, other_entry) ==
    CASE entry.kind = "File" /\ other_entry.kind = "File" ->
            IF entry.id # other_entry.id THEN Some(DiffFile(other_entry.id)) ELSE None
      [] entry.kind = "Directory" /\ other_entry.kind = "File" ->
            Some(DiffFile(other_entry.id))
      [] entry.kind = "File" /\ other_entry.kind = "Directory" ->
            Some(DiffDirectory(MkDiff({}, other_entry.dir, EmptyMap)))
      [] entry.kind = "Directory" /\ other_entry.kind = "Directory" ->
            IF entry.dir = other_entry.dir THEN None
            ELSE Some(DiffDirectory(DirectoryDiff(entry.dir, other_entry.dir)))

\* Directory::diff with the added filter testing the wrong map
DirectoryDiffAddedAll(this, that) ==
    LET added == [n \in {n \in DOMAIN that : n \in DOMAIN that} |-> that[n]]
        deleted == {n \in DOMAIN this : n \notin DOMAIN that}
        changed == {n \in DOMAIN this :
                        n \in DOMAIN that /\ EntryDiff(this[n], that[n]).tag = "Some"}
        modified == [n \in changed |-> EntryDiff(this[n], that[n]).val]
    IN  MkDiff(deleted, added, modified)

\* Directory::diff of self (this) against other (that)
DirectoryDiff(this, that) ==
    LET added == [n \in {n \in DOMAIN that : n \notin DOMAIN this} |-> that[n]]
        deleted == {n \in DOMAIN this : n \notin DOMAIN that}
        changed == {n \in DOMAIN this :
                        n \in DOMAIN that /\ EntryDiff(this[n], that[n]).tag = "Some"}
        modified == [n \in changed |-> EntryDiff(this[n], that[n]).val]
    IN  MkDiff(deleted, added, modified)

----------------------------------------------------------------------------
(* The trees modelled *)

\* entries of a tree, counted over all levels
RECURSIVE Size(_)
Size(m) ==
    IF DOMAIN m = {} THEN 0
    ELSE LET n == CHOOSE n \in DOMAIN m : TRUE
             below == IF m[n].kind \in {"Directory", "dir"} THEN Size(m[n].dir) ELSE 0
         IN  1 + below + Size([k \in DOMAIN m \ {n} |-> m[k]])

\* the maps over names with leaves from leaves and subtrees tagged tag, of at
\* most n entries over at most d levels
RECURSIVE Maps(_, _, _, _, _)
Maps(names, leaves, tag, n, d) ==
    IF names = {} \/ n <= 0 \/ d <= 0 THEN {EmptyMap}
    ELSE LET x == CHOOSE x \in names : TRUE
             rest == names \ {x}
             subs == IF d > 1 THEN Maps(Names, leaves, tag, n - 1, d - 1) ELSE {}
         IN  Maps(rest, leaves, tag, n, d)
             \cup {(x :> l) @@ m : l \in leaves, m \in Maps(rest, leaves, tag, n - 1, d)}
             \cup UNION {{(x :> [kind |-> tag, dir |-> sub]) @@ m :
                             m \in Maps(rest, leaves, tag, n - 1 - Size(sub), d)} :
                         sub \in subs}

\* identifiers at the leaves of the Directory values modelled
LeafIds == {IdOf(<<>>), IdOf(<<1>>)}

Directories == Maps(Names, {File(id) : id \in LeafIds}, "Directory", MaxEntries, MaxDepth)

----------------------------------------------------------------------------
(* DiffSpec: Directory::diff on two Directory values *)

DiffInit ==
    /\ store = EmptyMap
    /\ ledger = {}
    /\ work = EmptyMap
    /\ target = EmptyMap
    /\ tree = EmptyMap
    /\ origin = Unbuilt
    /\ self \in Directories
    /\ other \in Directories
    /\ ret = Idle

Diff ==
    /\ ret' = [op |-> "diff", val |-> DirectoryDiff(self, other)]
    /\ UNCHANGED <<store, ledger, work, target, tree, origin, self, other>>

DiffNext == Diff

DiffSpec == DiffInit /\ [][DiffNext]_vars

EmptyDiff == MkDiff({}, EmptyMap, EmptyMap)

\* C6: the diff of a tree with itself is empty
C6_DiffSelfEmpty ==
    (ret.op = "diff" /\ self = other) => ret.val = EmptyDiff

\* a tree holding a subdirectory with a file in it was diffed with itself
C6_Witness ==
    /\ ret.op = "diff"
    /\ self = other
    /\ \E n \in DOMAIN self :
          self[n].kind = "Directory" /\ \E k \in DOMAIN self[n].dir : self[n].dir[k].kind = "File"

\* C7: added maps exactly the names of other absent from self to other's whole
\* entry, deleted is exactly the names of self absent from other, no common
\* name is in either; self plus one new file gives just that file as added
C7_AddedDeleted ==
    ret.op = "diff" =>
        /\ DOMAIN ret.val.added = DOMAIN other \ DOMAIN self
        /\ \A n \in DOMAIN ret.val.added : ret.val.added[n] = other[n]
        /\ ret.val.deleted = DOMAIN self \ DOMAIN other
        /\ \A n \in DOMAIN self \cap DOMAIN other :
              n \notin DOMAIN ret.val.added /\ n \notin ret.val.deleted
        /\ \A x \in Names \ DOMAIN self : \A id \in LeafIds :
              other = (x :> File(id)) @@ self =>
                  ret.val = MkDiff({}, x :> File(id), EmptyMap)

\* a diff that adds a subdirectory with a nested subtree while a common name stays
C7_Witness ==
    /\ ret.op = "diff"
    /\ DOMAIN self \cap DOMAIN other # {}
    /\ \E n \in DOMAIN ret.val.added :
          /\ ret.val.added[n].kind = "Directory"
          /\ Size(ret.val.added[n].dir) >= 2

\* C8: a name that is a file in self and a directory d in other is modified
\* into Directory(Diff{added: d's entries, deleted: {}, modified: {}}) and is
\* neither added nor deleted
C8_FileToDirectory ==
    ret.op = "diff" =>
        \A n \in DOMAIN self \cap DOMAIN other :
            (self[n].kind = "File" /\ other[n].kind = "Directory") =>
                /\ n \in DOMAIN ret.val.modified
                /\ ret.val.modified[n] = DiffDirectory(MkDiff({}, other[n].dir, EmptyMap))
                /\ n \notin DOMAIN ret.val.added
                /\ n \notin ret.val.deleted

\* one file turned into an empty directory and another into a populated one
C8_Witness ==
    /\ ret.op = "diff"
    /\ \E n, k \in DOMAIN self \cap DOMAIN other :
          /\ self[n].kind = "File" /\ other[n].kind = "Directory" /\ other[n].dir = EmptyMap
          /\ self[k].kind = "File" /\ other[k].kind = "Directory" /\ other[k].dir # EmptyMap

\* paths, from the root, of the File entries of a tree
RECURSIVE FilePaths(_)
FilePaths(t) ==
    UNION {IF t[n].kind = "File" THEN {<<n>>}
           ELSE {<<n>> \o p : p \in FilePaths(t[n].dir)} : n \in DOMAIN t}

\* the tree with the file at path p given identifier id
RECURSIVE ReplaceAt(_, _, _)
ReplaceAt(t, p, id) ==
    IF Len(p) = 1 THEN [t EXCEPT ![p[1]] = File(id)]
    ELSE [t EXCEPT ![p[1]] = Directory(ReplaceAt(t[p[1]].dir, Tail(p), id))]

RECURSIVE IdAt(_, _)
IdAt(t, p) == IF Len(p) = 1 THEN t[p[1]].id ELSE IdAt(t[p[1]].dir, Tail(p))

\* one modified key per level along p, ending in File(id)
RECURSIVE Chain(_, _)
Chain(p, id) ==
    MkDiff({}, EmptyMap,
           p[1] :> (IF Len(p) = 1 THEN DiffFile(id) ELSE DiffDirectory(Chain(Tail(p), id))))

\* C9: when other is self with one nested file's identifier changed to Y, the
\* diff is the chain of single-key Directory diffs along the path ending in File(Y)
C9_NestedModification ==
    ret.op = "diff" =>
        \A p \in FilePaths(self) : \A y \in LeafIds :
            (Len(p) >= 2 /\ y # IdAt(self, p) /\ other = ReplaceAt(self, p, y)) =>
                ret.val = Chain(p, y)

\* a file two directories down changed while a sibling stayed
C9_Witness ==
    /\ ret.op = "diff"
    /\ Size(self) > 3
    /\ \E p \in FilePaths(self) : \E y \in LeafIds :
          Len(p) = 3 /\ y # IdAt(self, p) /\ other = ReplaceAt(self, p, y)

----------------------------------------------------------------------------
(* The file system under the working directory and the target path *)

FsFile(data) == [kind |-> "file", data |-> data]

FsDir(entries) == [kind |-> "dir", dir |-> entries]

\* neither a regular file nor a directory (a symlink, a device)
FsOther == [kind |-> "other"]

\* no entry at the path
Missing == [kind |-> "missing"]

\* contents of the files on disk
Contents == {<<>>, <<1>>, <<0, 1>>}

WorkDirs ==
    Maps(Names, {FsFile(c) : c \in Contents} \cup {FsOther}, "dir", MaxWorkEntries, MaxDepth)

\* what the target path holds before the first write: nothing, or a directory
\* with at most one entry
Targets ==
    {Missing} \cup {FsDir(m) : m \in Maps(Names, {FsFile(c) : c \in Contents}, "dir", 1, 2)}

\* Ignores::default() and a caller's set
IgnoreSets == {{".rev"}, {".rev", "b"}}

Err(e) == [tag |-> "Err", err |-> e]

ObjectMissing(id) == [kind |-> "ObjectMissing", id |-> id]

IO == [kind |-> "IO"]

Unit == <<>>

----------------------------------------------------------------------------
(* Directory::new *)

RECURSIVE New(_, _, _), NewFrom(_, _, _, _), NewFromKeepsIgnored(_, _, _, _)

\* the loop of Directory::new without the ignore test
NewFromKeepsIgnored(i, dir, ignores, acc) ==
    IF i > Len(NameOrder) THEN acc
    ELSE LET name == NameOrder[i]
         IN  IF name \notin DOMAIN dir THEN NewFrom(i + 1, dir, ignores, acc)
             ELSE IF dir[name].kind = "dir" THEN
                 LET sub == New(dir[name].dir, ignores, acc.store)
                 IN  NewFrom(i + 1, dir, ignores,
                             [root |-> (name :> Directory(sub.root)) @@ acc.root,
                              store |-> sub.store])
             ELSE IF dir[name].kind = "file" THEN
                 LET id == IdOf(dir[name].data)
                     ins == Insert(acc.store, dir[name].data)
                 IN  NewFrom(i + 1, dir, ignores,
                             [root |-> (name :> File(id)) @@ acc.root,
                              store |-> ins.root])
             ELSE NewFrom(i + 1, dir, ignores, acc)

\* the loop over read_dir(dir), from the i-th name on; acc is the root map
\* built and the store so far
NewFrom(i, dir, ignores, acc) ==
    IF i > Len(NameOrder) THEN acc
    ELSE LET name == NameOrder[i]
         IN  IF name \notin DOMAIN dir THEN NewFrom(i + 1, dir, ignores, acc)
             ELSE IF name \in ignores THEN NewFrom(i + 1, dir, ignores, acc)
             ELSE IF dir[name].kind = "dir" THEN
                 LET sub == New(dir[name].dir, ignores, acc.store)
                 IN  NewFrom(i + 1, dir, ignores,
                             [root |-> (name :> Directory(sub.root)) @@ acc.root,
                              store |-> sub.store])
             ELSE IF dir[name].kind = "file" THEN
                 LET id == IdOf(dir[name].data)
                     ins == Insert(acc.store, dir[name].data)
                 IN  NewFrom(i + 1, dir, ignores,
                             [root |-> (name :> File(id)) @@ acc.root,
                              store |-> ins.root])
             ELSE NewFrom(i + 1, dir, ignores, acc)

New(dir, ignores, root) == NewFrom(1, dir, ignores, [root |-> EmptyMap, store |-> root])

----------------------------------------------------------------------------
(* Directory::write *)

RECURSIVE Write(_, _, _), WriteFrom(_, _, _, _)

\* the loop over self.root.iter(), from the i-th name on, into directory node
WriteFrom(i, this, root, node) ==
    IF i > Len(NameOrder) THEN [res |-> Ok(Unit), node |-> node]
    ELSE LET name == NameOrder[i]
             there == IF name \in DOMAIN node.dir THEN node.dir[name] ELSE Missing
         IN  IF name \notin DOMAIN this THEN WriteFrom(i + 1, this, root, node)
             ELSE IF this[name].kind = "File" THEN
                 LET v == Read(root, this[name].id).val
                 IN  IF v.tag = "None"
                     THEN [res |-> Err(ObjectMissing(this[name].id)), node |-> node]
                     ELSE IF there.kind \notin {"missing", "file"}
                     THEN [res |-> Err(IO), node |-> node]
                     ELSE LET old == IF there.kind = "file" THEN there.data ELSE <<>>
                              f == FsFile(WriteFile(old, v.val))
                          IN  WriteFrom(i + 1, this, root,
                                        FsDir((name :> f) @@ node.dir))
             ELSE
                 LET sub == Write(this[name].dir, root, there)
                     after == IF there.kind = "missing" THEN node
                              ELSE FsDir((name :> sub.node) @@ node.dir)
                 IN  IF sub.res.tag = "Err" THEN [res |-> sub.res, node |-> after]
                     ELSE WriteFrom(i + 1, this, root, after)

\* node is what the path holds; read_dir(path) succeeds on a directory only
Write(this, root, node) ==
    IF node.kind = "dir" THEN WriteFrom(1, this, root, node)
    ELSE [res |-> Ok(Unit), node |-> node]

----------------------------------------------------------------------------
(* Spec: a working directory snapshotted into a new store and written back *)

Init ==
    /\ store = EmptyMap
    /\ ledger = {}
    /\ work \in WorkDirs
    /\ target \in Targets
    /\ tree = EmptyMap
    /\ origin = Unbuilt
    /\ self = EmptyMap
    /\ other = EmptyMap
    /\ ret = Idle

\* Directory::new(work, ignores, &mut store)
DirectoryNew(ignores) ==
    /\ LET r == New(work, ignores, store)
       IN  /\ tree' = r.root
           /\ store' = r.store
    /\ origin' = [by |-> "store", ignores |-> ignores]
    /\ ret' = [op |-> "new", ignores |-> ignores, before |-> store]
    /\ UNCHANGED <<ledger, work, target, self, other>>

\* Directory::new(work, ignores, &mut InMemoryObjectStore::new()), as in
\* test_directory: the tree is built against another store
DirectoryNewInMemory(ignores) ==
    /\ tree' = New(work, ignores, EmptyMap).root
    /\ origin' = [by |-> "memory", ignores |-> ignores]
    /\ ret' = [op |-> "new_in_memory", ignores |-> ignores]
    /\ UNCHANGED <<store, ledger, work, target, self, other>>

\* tree.write(&store, target)
DirectoryWrite ==
    /\ LET r == Write(tree, store, target)
       IN  /\ target' = r.node
           /\ ret' = [op |-> "write", before |-> target, val |-> r.res]
    /\ UNCHANGED <<store, ledger, work, tree, origin, self, other>>

Next ==
    \/ \E ignores \in IgnoreSets : DirectoryNew(ignores)
    \/ \E ignores \in IgnoreSets : DirectoryNewInMemory(ignores)
    \/ DirectoryWrite

Spec == Init /\ [][Next]_vars

\* what Directory::new is to record of a directory: the regular files and the
\* directories whose names are not ignored
RECURSIVE Visible(_, _)
Visible(dir, ignores) ==
    [n \in {n \in DOMAIN dir : n \notin ignores /\ dir[n].kind \in {"file", "dir"}} |->
        IF dir[n].kind = "dir" THEN FsDir(Visible(dir[n].dir, ignores)) ELSE dir[n]]

\* no entry outside the ignored names is other than a file or a directory
RECURSIVE OnlyFilesAndDirs(_, _)
OnlyFilesAndDirs(dir, ignores) ==
    \A n \in DOMAIN dir \ ignores :
        /\ dir[n].kind \in {"file", "dir"}
        /\ dir[n].kind = "dir" => OnlyFilesAndDirs(dir[n].dir, ignores)

\* C1: a tree built by Directory::new from the working directory and written
\* into a fresh empty directory reproduces the names, kinds and file bytes of
\* the working directory, ignored names excluded
C1_MaterializationRoundTrip ==
    (/\ ret.op = "write"
     /\ ret.val = Ok(Unit)
     /\ ret.before = FsDir(EmptyMap)
     /\ origin.by = "store"
     /\ work # EmptyMap
     /\ OnlyFilesAndDirs(work, origin.ignores))
        => target = FsDir(Visible(work, origin.ignores))

\* C4: after write returns Ok on an existing target, every top-level File(id)
\* entry n has target/n holding exactly the bytes the store holds for id
C4_FileContentsExact ==
    (ret.op = "write" /\ ret.val = Ok(Unit) /\ ret.before.kind = "dir") =>
        \A n \in DOMAIN tree :
            tree[n].kind = "File" =>
                /\ n \in DOMAIN target.dir
                /\ Read(store, tree[n].id).val.tag = "Some"
                /\ target.dir[n] = FsFile(Read(store, tree[n].id).val.val)

\* identifiers at the File entries of t, at any depth, that the store lacks
MissingIds(t, root) ==
    {id \in {IdAt(t, p) : p \in FilePaths(t)} : Read(root, id) = Ok(None)}

\* C5: write of a tree that references, at any depth, an identifier the store
\* lacks does not return Ok on an existing target; short of an I/O fault it
\* fails with ObjectMissing of such an identifier
C5_ObjectMissingReported ==
    (ret.op = "write" /\ ret.before.kind = "dir" /\ MissingIds(tree, store) # {}) =>
        /\ ret.val.tag = "Err"
        /\ ret.val.err.kind # "IO" =>
              /\ ret.val.err.kind = "ObjectMissing"
              /\ ret.val.err.id \in MissingIds(tree, store)

\* every File(id) of t is a regular file at the same place under dir, id is
\* what insert returns for its bytes, and the store has and reads those bytes
RECURSIVE Faithful(_, _, _)
Faithful(t, dir, root) ==
    \A n \in DOMAIN t :
        /\ n \in DOMAIN dir
        /\ IF t[n].kind = "File"
           THEN /\ dir[n].kind = "file"
                /\ t[n].id = Insert(root, dir[n].data).id
                /\ Has(root, t[n].id) = Ok(TRUE)
                /\ Read(root, t[n].id) = Ok(Some(dir[n].data))
           ELSE /\ dir[n].kind = "dir"
                /\ Faithful(t[n].dir, dir[n].dir, root)

RECURSIVE NoIgnored(_, _)
NoIgnored(t, ignores) ==
    \A n \in DOMAIN t :
        /\ n \notin ignores
        /\ t[n].kind = "Directory" => NoIgnored(t[n].dir, ignores)

\* contents of the regular files of an on-disk directory, at any depth
RECURSIVE FileData(_)
FileData(dir) ==
    UNION {IF dir[n].kind = "file" THEN {dir[n].data}
           ELSE IF dir[n].kind = "dir" THEN FileData(dir[n].dir)
           ELSE {} : n \in DOMAIN dir}

StoredIds(root) == {id \in ObjectIds : Has(root, id) = Ok(TRUE)}

\* C10: after Directory::new returns Ok(tree), every File(id) of tree is the
\* identifier of the file at that place, the store has it and reads back the
\* file's bytes; no ignored name is in tree; and the call stored nothing but
\* the contents of files that are not under an ignored name
C10_SnapshotIntegrity ==
    ret.op = "new" =>
        /\ Faithful(tree, work, store)
        /\ NoIgnored(tree, ret.ignores)
        /\ StoredIds(store) \ StoredIds(ret.before)
              \subseteq {IdOf(d) : d \in FileData(Visible(work, ret.ignores))}

\* a snapshot with a file in a subdirectory recorded, and an ignored file
\* whose content stayed out of the store
C10_Witness ==
    /\ ret.op = "new"
    /\ \E p \in FilePaths(tree) : Len(p) >= 2
    /\ \E n \in DOMAIN work \cap ret.ignores :
          work[n].kind = "file" /\ IdOf(work[n].data) \notin StoredIds(store)

====
